---- MODULE Spec2Model ----
(***************************************************************************)
(* Model of main.py, the printable flashcard generator: the card grid of   *)
(* create_flashcard_page (front pass and horizontally mirrored back pass), *)
(* the two-pass driver generate_flashcard_pdfs, the page interleaving of   *)
(* merge_pdfs and the part of guided_flow that decides whether the         *)
(* intermediate files are kept.                                            *)
(*                                                                         *)
(* Lengths are in millimetres: reportlab's cm is 10 mm and A4 is           *)
(* 210 mm x 297 mm, so every length of the program is an integer here.     *)
(* A card record is modelled by its identity (a natural number); its text  *)
(* does not influence placement or pagination.                             *)
(***************************************************************************)
EXTENDS Integers, Sequences, FiniteSets, TLC

\* ------------------------------------------------------------------------
\* Bounds of the model
\* ------------------------------------------------------------------------
MaxRecords == 38

MaxPages == 3

\* ------------------------------------------------------------------------
\* Configuration constants of main.py (mm)
\* ------------------------------------------------------------------------
cm == 10

A4Width == 210

A4Height == 297

CARD_WIDTH == 6 * cm

CARD_HEIGHT == 4 * cm

CARDS_PER_ROW == 3

CARDS_PER_COL == 6

MARGIN_X == 1 * cm

MARGIN_Y == 2 * cm

GAP == 5

\* ------------------------------------------------------------------------
\* create_flashcard_page: the arithmetic of one loop iteration
\* ------------------------------------------------------------------------
\* width, height = A4
width == A4Width

height == A4Height

\* total_per_page = CARDS_PER_ROW * CARDS_PER_COL
total_per_page == CARDS_PER_ROW * CARDS_PER_COL

\* idx = i % total_per_page
LocalIdx(i) == i % total_per_page

\* row = idx // CARDS_PER_ROW
RowOf(i) == LocalIdx(i) \div CARDS_PER_ROW

\* col = idx % CARDS_PER_ROW
ColOf(i) == LocalIdx(i) % CARDS_PER_ROW

\* mutations of MirrorCol: reflection about the wrong column; no reflection
C2_MirrorOffByOne(col) == CARDS_PER_ROW - col

C1_NoMirror(col) == col

\* mirror_col = CARDS_PER_ROW - 1 - col
MirrorCol(col) == CARDS_PER_ROW - 1 - col

\* the column the box is drawn in: col on the front, mirror_col on the back
EffectiveCol(i, is_front) == IF is_front THEN ColOf(i) ELSE MirrorCol(ColOf(i))

\* x = MARGIN_X + <column> * (CARD_WIDTH + GAP)
XPos(i, is_front) == MARGIN_X + EffectiveCol(i, is_front) * (CARD_WIDTH + GAP)

\* mutation of YPos: y is taken at the top edge of the card instead of the bottom
C9_YForgetsCardHeight(i) == height - MARGIN_Y - RowOf(i) * CARD_HEIGHT - RowOf(i) * GAP

\* y = height - MARGIN_Y - (row + 1) * CARD_HEIGHT - row * GAP
YPos(i) == height - MARGIN_Y - (RowOf(i) + 1) * CARD_HEIGHT - RowOf(i) * GAP

\* mutations of PageBreakAfter: the test uses i instead of i + 1; the test
\* counts rows instead of pages
C4_BreakBeforeCard(i) == i % total_per_page = 0

C7_BreakEveryRow(i) == (i + 1) % CARDS_PER_ROW = 0

\* if (i + 1) % total_per_page == 0: canv.showPage()
PageBreakAfter(i) == (i + 1) % total_per_page = 0

\* ------------------------------------------------------------------------
\* The canvas (reportlab collaborator): the pages closed so far, the boxes
\* drawn on the page being composed, and the indices after which showPage
\* was called.
\* ------------------------------------------------------------------------
NewCanvas == [pages |-> <<>>, code |-> <<>>, shown |-> <<>>]

\* canv.rect(x, y, CARD_WIDTH, CARD_HEIGHT) and draw_text in the same box
Rect(canv, box) == [canv EXCEPT !.code = Append(@, box)]

\* canv.showPage(): close the current page and start an empty one
ShowPage(canv, side, i) ==
    [canv EXCEPT !.pages = Append(@, [side |-> side, no |-> Len(@) + 1, boxes |-> canv.code]),
                 !.code = <<>>,
                 !.shown = Append(@, i)]

SideName(is_front) == IF is_front THEN "F" ELSE "B"

\* the rectangle drawn for cards[i] (Python index i, 0-based)
BoxOf(cs, i, is_front) ==
    [i |-> i, card |-> cs[i + 1], row |-> RowOf(i), col |-> EffectiveCol(i, is_front),
     x |-> XPos(i, is_front), y |-> YPos(i)]

\* mutation of DrawCard: the back pass tests idx instead of i + 1
C3_BackBreaksOnLocalIdx(canv, cs, i, is_front) ==
    LET drawn == Rect(canv, BoxOf(cs, i, is_front))
        due == IF is_front THEN PageBreakAfter(i) ELSE LocalIdx(i) = 0
    IN IF due THEN ShowPage(drawn, SideName(is_front), i) ELSE drawn

\* one iteration of the for loop of create_flashcard_page
DrawCard(canv, cs, i, is_front) ==
    LET drawn == Rect(canv, BoxOf(cs, i, is_front))
    IN IF PageBreakAfter(i) THEN ShowPage(drawn, SideName(is_front), i) ELSE drawn

\* canvas.save(): the page being composed is kept when something is on it
SavedPages(canv, side) ==
    IF canv.code = <<>> THEN canv.pages
    ELSE Append(canv.pages, [side |-> side, no |-> Len(canv.pages) + 1, boxes |-> canv.code])

\* every box drawn on a canvas so far, in drawing order
RECURSIVE BoxesOfPages(_)
BoxesOfPages(pages) ==
    IF pages = <<>> THEN <<>> ELSE pages[1].boxes \o BoxesOfPages(Tail(pages))

AllBoxes(canv) == BoxesOfPages(canv.pages) \o canv.code

\* ------------------------------------------------------------------------
\* guided_flow, step 3: the answer typed at the "keep intermediates" prompt,
\* a string modelled as a sequence of characters
\* ------------------------------------------------------------------------
Answers ==
    { <<>>, <<"s">>, <<"S">>, <<"s", "i">>, <<"S", "i">>, <<"s", "I">>, <<" ", "s", " ">>,
      <<"\t", "S", "I">>, <<"s", " ", "i">>, <<"n">>, <<"N">>, <<"s", "s">>, <<"y">> }

IsSpace(c) == c = " " \/ c = "\t"

\* str.strip(): drop the leading and the trailing whitespace
RECURSIVE LStrip(_)
LStrip(str) ==
    IF str # <<>> /\ IsSpace(Head(str)) THEN LStrip(Tail(str)) ELSE str

RECURSIVE RStrip(_)
RStrip(str) ==
    IF str # <<>> /\ IsSpace(str[Len(str)]) THEN RStrip(SubSeq(str, 1, Len(str) - 1)) ELSE str

Strip(str) == RStrip(LStrip(str))

LowerChar(c) ==
    CASE c = "S" -> "s"
      [] c = "I" -> "i"
      [] c = "N" -> "n"
      [] c = "Y" -> "y"
      [] OTHER -> c

\* str.lower()
Lower(str) == [k \in 1..Len(str) |-> LowerChar(str[k])]

\* mutation of KeepMidFlag: 'si' is not accepted
C10_OnlySingleLetter(raw) == Lower(Strip(raw)) = <<"s">>

\* keep_mid = input(...).strip().lower(); keep_mid_flag = keep_mid == 's' or keep_mid == 'si'
KeepMidFlag(raw) ==
    LET keep_mid == Lower(Strip(raw))
    IN keep_mid = <<"s">> \/ keep_mid = <<"s", "i">>

\* ------------------------------------------------------------------------
\* merge_pdfs: the interleaving loop
\* ------------------------------------------------------------------------
Max(a, b) == IF a >= b THEN a ELSE b

\* mutation of AddPages: pages are added only while both documents have one
C8_DropsSurplus(w, k, fp, bp) ==
    IF k < Len(fp) /\ k < Len(bp) THEN w \o <<fp[k + 1], bp[k + 1]>> ELSE w

\* if i < nf: writer.add_page(front_pdf.pages[i]); if i < nb: writer.add_page(back_pdf.pages[i])
AddPages(w, k, fp, bp) ==
    LET w1 == IF k < Len(fp) THEN Append(w, fp[k + 1]) ELSE w
    IN IF k < Len(bp) THEN Append(w1, bp[k + 1]) ELSE w1

\* ------------------------------------------------------------------------
\* State
\* ------------------------------------------------------------------------
VARIABLES
    entry,                \* the function the run entered through
    pc,                   \* position in the program
    cards,                \* the loaded records (identities), in file order
    answer,               \* raw text typed at prompt 3
    keep_mid_flag,        \* guided_flow's keep_mid_flag
    i,                    \* loop index of the running create_flashcard_page
    fronte, retro,        \* the two canvases of generate_flashcard_pdfs
    files,                \* the file system: front, back and output documents
    remove_intermediate,  \* merge_pdfs' parameter
    lib,                  \* outcome of "from PyPDF2 import ..."
    front_pdf, back_pdf,  \* pages read by PdfReader
    writer,               \* pages added to the PdfWriter
    mi                    \* loop index of merge_pdfs

vars == <<entry, pc, cards, answer, keep_mid_flag, i, fronte, retro, files,
          remove_intermediate, lib, front_pdf, back_pdf, writer, mi>>

NoFile == [exists |-> FALSE, pages |-> <<>>]

File(pages) == [exists |-> TRUE, pages |-> pages]

Deck(n) == [k \in 1..n |-> k]

\* a document of n pages coming from outside the program
Doc(side, n) == [k \in 1..n |-> [side |-> side, no |-> k, boxes |-> <<>>]]

Blank ==
    /\ answer = <<>>
    /\ keep_mid_flag = FALSE
    /\ i = 0
    /\ fronte = NewCanvas
    /\ retro = NewCanvas
    /\ lib = "unknown"
    /\ front_pdf = <<>>
    /\ back_pdf = <<>>
    /\ writer = <<>>
    /\ mi = 0

\* ------------------------------------------------------------------------
\* guided_flow
\* ------------------------------------------------------------------------
\* entry of guided_flow: nothing loaded, no file written
Init ==
    /\ entry = "guided_flow"
    /\ pc = "csv"
    /\ cards = <<>>
    /\ files = [front |-> NoFile, back |-> NoFile, out |-> NoFile]
    /\ remove_intermediate = TRUE
    /\ Blank

\* step 1: load_flashcards returned a non-empty list (an empty one is refused)
LoadCards ==
    /\ pc = "csv"
    /\ \E n \in 1..MaxRecords : cards' = Deck(n)
    /\ pc' = "ask"
    /\ UNCHANGED <<entry, answer, keep_mid_flag, i, fronte, retro, files,
                   remove_intermediate, lib, front_pdf, back_pdf, writer, mi>>

\* step 3: keep the intermediate files?
AskKeepMid ==
    /\ pc = "ask"
    /\ \E raw \in Answers :
          /\ answer' = raw
          /\ keep_mid_flag' = KeepMidFlag(raw)
    /\ pc' = "generate"
    /\ UNCHANGED <<entry, cards, i, fronte, retro, files, remove_intermediate, lib,
                   front_pdf, back_pdf, writer, mi>>

\* merge_pdfs(front_path, back_path, out_name, remove_intermediate=not keep_mid_flag)
CallMerge ==
    /\ pc = "call_merge"
    /\ remove_intermediate' = ~keep_mid_flag
    /\ pc' = "import"
    /\ UNCHANGED <<entry, cards, answer, keep_mid_flag, i, fronte, retro, files, lib,
                   front_pdf, back_pdf, writer, mi>>

\* ------------------------------------------------------------------------
\* generate_flashcard_pdfs
\* ------------------------------------------------------------------------
\* fronte = canvas.Canvas(front_path); retro = canvas.Canvas(back_path)
OpenCanvases ==
    /\ pc = "generate"
    /\ fronte' = NewCanvas
    /\ retro' = NewCanvas
    /\ i' = 0
    /\ pc' = "front"
    /\ UNCHANGED <<entry, cards, answer, keep_mid_flag, files, remove_intermediate, lib,
                   front_pdf, back_pdf, writer, mi>>

\* create_flashcard_page(fronte, cards, is_front=True): one iteration
DrawFront ==
    /\ pc = "front"
    /\ i < Len(cards)
    /\ fronte' = DrawCard(fronte, cards, i, TRUE)
    /\ i' = i + 1
    /\ UNCHANGED <<entry, pc, cards, answer, keep_mid_flag, retro, files,
                   remove_intermediate, lib, front_pdf, back_pdf, writer, mi>>

\* the front pass returns, the back pass starts
FrontDone ==
    /\ pc = "front"
    /\ i = Len(cards)
    /\ i' = 0
    /\ pc' = "back"
    /\ UNCHANGED <<entry, cards, answer, keep_mid_flag, fronte, retro, files,
                   remove_intermediate, lib, front_pdf, back_pdf, writer, mi>>

\* create_flashcard_page(retro, cards, is_front=False): one iteration
DrawBack ==
    /\ pc = "back"
    /\ i < Len(cards)
    /\ retro' = DrawCard(retro, cards, i, FALSE)
    /\ i' = i + 1
    /\ UNCHANGED <<entry, pc, cards, answer, keep_mid_flag, fronte, files,
                   remove_intermediate, lib, front_pdf, back_pdf, writer, mi>>

\* the back pass returns
BackDone ==
    /\ pc = "back"
    /\ i = Len(cards)
    /\ pc' = "save"
    /\ UNCHANGED <<entry, cards, answer, keep_mid_flag, i, fronte, retro, files,
                   remove_intermediate, lib, front_pdf, back_pdf, writer, mi>>

\* fronte.save(); retro.save()
SaveBoth ==
    /\ pc = "save"
    /\ files' = [files EXCEPT !.front = File(SavedPages(fronte, "F")),
                              !.back = File(SavedPages(retro, "B"))]
    /\ pc' = IF entry = "guided_flow" THEN "call_merge" ELSE "done"
    /\ UNCHANGED <<entry, cards, answer, keep_mid_flag, i, fronte, retro,
                   remove_intermediate, lib, front_pdf, back_pdf, writer, mi>>

\* ------------------------------------------------------------------------
\* merge_pdfs
\* ------------------------------------------------------------------------
\* the import of PyPDF2 raises: print the two paths and return
ImportFails ==
    /\ pc = "import"
    /\ lib' = "missing"
    /\ pc' = "done"
    /\ UNCHANGED <<entry, cards, answer, keep_mid_flag, i, fronte, retro, files,
                   remove_intermediate, front_pdf, back_pdf, writer, mi>>

\* the import succeeds; both documents are read and an empty writer is made
ImportAndRead ==
    /\ pc = "import"
    /\ files.front.exists /\ files.back.exists
    /\ lib' = "ok"
    /\ front_pdf' = files.front.pages
    /\ back_pdf' = files.back.pages
    /\ writer' = <<>>
    /\ mi' = 0
    /\ pc' = "loop"
    /\ UNCHANGED <<entry, cards, answer, keep_mid_flag, i, fronte, retro, files,
                   remove_intermediate>>

\* for i in range(max(nf, nb)): one iteration
MergeStep ==
    /\ pc = "loop"
    /\ mi < Max(Len(front_pdf), Len(back_pdf))
    /\ writer' = AddPages(writer, mi, front_pdf, back_pdf)
    /\ mi' = mi + 1
    /\ UNCHANGED <<entry, pc, cards, answer, keep_mid_flag, i, fronte, retro, files,
                   remove_intermediate, lib, front_pdf, back_pdf>>

\* with open(output_path, "wb") as f: writer.write(f)
WriteOutput ==
    /\ pc = "loop"
    /\ mi = Max(Len(front_pdf), Len(back_pdf))
    /\ files' = [files EXCEPT !.out = File(writer)]
    /\ pc' = IF remove_intermediate THEN "remove" ELSE "done"
    /\ UNCHANGED <<entry, cards, answer, keep_mid_flag, i, fronte, retro,
                   remove_intermediate, lib, front_pdf, back_pdf, writer, mi>>

\* try: os.remove(front_path); os.remove(back_path) except Exception: pass
\* Either removal may be refused by the operating system.
RemoveIntermediate ==
    /\ pc = "remove"
    /\ \E outcome \in {"both", "front_refused", "back_refused"} :
          files' = CASE outcome = "both" -> [files EXCEPT !.front = NoFile, !.back = NoFile]
                     [] outcome = "front_refused" -> files
                     [] outcome = "back_refused" -> [files EXCEPT !.front = NoFile]
    /\ pc' = "done"
    /\ UNCHANGED <<entry, cards, answer, keep_mid_flag, i, fronte, retro,
                   remove_intermediate, lib, front_pdf, back_pdf, writer, mi>>

Next ==
    \/ LoadCards
    \/ AskKeepMid
    \/ CallMerge
    \/ OpenCanvases
    \/ DrawFront
    \/ FrontDone
    \/ DrawBack
    \/ BackDone
    \/ SaveBoth
    \/ ImportFails
    \/ ImportAndRead
    \/ MergeStep
    \/ WriteOutput
    \/ RemoveIntermediate

Spec == Init /\ [][Next]_vars

\* generate_flashcard_pdfs called on any list of records, the empty one included
GenerateInit ==
    /\ entry = "generate_flashcard_pdfs"
    /\ pc = "generate"
    /\ \E n \in 0..MaxRecords : cards = Deck(n)
    /\ files = [front |-> NoFile, back |-> NoFile, out |-> NoFile]
    /\ remove_intermediate = TRUE
    /\ Blank

GenerateNext ==
    \/ OpenCanvases
    \/ DrawFront
    \/ FrontDone
    \/ DrawBack
    \/ BackDone
    \/ SaveBoth

GenerateSpec == GenerateInit /\ [][GenerateNext]_vars

\* merge_pdfs called on any two documents, of equal length or not
MergeInit ==
    /\ entry = "merge_pdfs"
    /\ pc = "import"
    /\ cards = <<>>
    /\ \E nf \in 0..MaxPages, nb \in 0..MaxPages :
          files = [front |-> File(Doc("F", nf)), back |-> File(Doc("B", nb)), out |-> NoFile]
    /\ remove_intermediate \in BOOLEAN
    /\ Blank

MergeNext ==
    \/ ImportFails
    \/ ImportAndRead
    \/ MergeStep
    \/ WriteOutput
    \/ RemoveIntermediate

MergeSpec == MergeInit /\ [][MergeNext]_vars

\* ------------------------------------------------------------------------
\* Properties
\* ------------------------------------------------------------------------
Min(a, b) == IF a <= b THEN a ELSE b

CardIds(boxes) == [k \in 1..Len(boxes) |-> boxes[k].card]

FrontPassDone == pc \in {"back", "save", "call_merge", "import", "loop", "remove", "done"}

BackPassDone == pc \in {"save", "call_merge", "import", "loop", "remove", "done"}

FrontBoxes == AllBoxes(fronte)

BackBoxes == AllBoxes(retro)

\* C1 (flip alignment): the box drawn for record i on the back is the
\* reflection about the vertical centre line of the page of the box drawn for
\* record i on the front: x_back = pageWidth - x_front - cardWidth and
\* y_back = y_front.
C1_FlipAlignment ==
    \A k \in 1..Len(BackBoxes) :
        LET b == BackBoxes[k]
            f == FrontBoxes[k]
        IN /\ b.i = f.i
           /\ b.card = f.card
           /\ b.x = A4Width - f.x - CARD_WIDTH
           /\ b.y = f.y

\* both passes finished over more than one page, with a card whose back is
\* drawn at another x than its front
C1_Witness ==
    /\ pc = "done"
    /\ Len(cards) > total_per_page
    /\ \E k \in 1..Len(BackBoxes) :
          /\ BackBoxes[k].i >= total_per_page
          /\ BackBoxes[k].x # FrontBoxes[k].x

\* C2 (mirror invariant): for every record the back row equals the front row,
\* front column + back column = columns - 1, the columns stay in
\* 0..columns-1 and the row in 0..rows-1.
C2_MirrorInvariant ==
    /\ \A k \in 1..Len(FrontBoxes) :
          /\ FrontBoxes[k].col \in 0..(CARDS_PER_ROW - 1)
          /\ FrontBoxes[k].row \in 0..(CARDS_PER_COL - 1)
    /\ \A k \in 1..Len(BackBoxes) :
          /\ BackBoxes[k].col \in 0..(CARDS_PER_ROW - 1)
          /\ BackBoxes[k].row = FrontBoxes[k].row
          /\ FrontBoxes[k].col + BackBoxes[k].col = CARDS_PER_ROW - 1

\* record 7 sits in row 2, centre column, on both sides, and some record has
\* moved from the first column to the last
C2_Witness ==
    /\ BackPassDone
    /\ Len(BackBoxes) > 7
    /\ FrontBoxes[8].row = 2 /\ FrontBoxes[8].col = 1 /\ BackBoxes[8].col = 1
    /\ \E k \in 1..Len(BackBoxes) : FrontBoxes[k].col = 0 /\ BackBoxes[k].col = CARDS_PER_ROW - 1

Indices(seq) == {seq[k] : k \in 1..Len(seq)}

\* C3 (page-break alignment): the back pass emits showPage after the same
\* record indices as the front pass; once both passes are over the two
\* documents have the same number of pages and page k of the back holds the
\* records of page k of the front.
C3_PageBreakAlignment ==
    /\ pc = "back" =>
          /\ Indices(retro.shown) \subseteq Indices(fronte.shown)
          /\ \A idx \in Indices(fronte.shown) : idx < i => idx \in Indices(retro.shown)
    /\ BackPassDone /\ entry # "merge_pdfs" =>
          LET fp == SavedPages(fronte, "F")
              bp == SavedPages(retro, "B")
          IN /\ Indices(retro.shown) = Indices(fronte.shown)
             /\ Len(fp) = Len(bp)
             /\ \A k \in 1..Len(fp) : CardIds(bp[k].boxes) = CardIds(fp[k].boxes)
    /\ pc = "done" /\ entry = "generate_flashcard_pdfs" =>
          /\ Len(files.front.pages) = Len(files.back.pages)
          /\ \A k \in 1..Len(files.front.pages) :
                CardIds(files.back.pages[k].boxes) = CardIds(files.front.pages[k].boxes)

\* both documents written, two full pages and a partial third
C3_Witness ==
    /\ pc = "done"
    /\ Len(files.front.pages) = 3
    /\ Len(files.back.pages) = 3
    /\ Len(retro.shown) = 2
    /\ Len(files.back.pages[3].boxes) < total_per_page

GroupsOk(canv, side, done) ==
    LET boxes == AllBoxes(canv)
        groups == SavedPages(canv, side)
    IN /\ Len(boxes) <= Len(cards)
       /\ CardIds(boxes) = SubSeq(cards, 1, Len(boxes))
       /\ done => CardIds(boxes) = cards
       /\ BoxesOfPages(groups) = boxes
       /\ \A g \in 1..Len(groups) :
             /\ Len(groups[g].boxes) >= 1
             /\ Len(groups[g].boxes) <= total_per_page
             /\ g < Len(groups) => Len(groups[g].boxes) = total_per_page
             /\ \A a, b \in 1..Len(groups[g].boxes) :
                   a # b => <<groups[g].boxes[a].row, groups[g].boxes[a].col>>
                            # <<groups[g].boxes[b].row, groups[g].boxes[b].col>>

\* C4 (pagination coverage): one pass draws every record exactly once in the
\* original order; the groups between page breaks concatenate to the record
\* sequence, every group before the last has total_per_page records and no
\* two records of a group share a (row, column) slot.
C4_PaginationCoverage ==
    /\ GroupsOk(fronte, "F", FrontPassDone)
    /\ GroupsOk(retro, "B", BackPassDone)

\* a finished run of 2 * total_per_page + 1 records: groups of 18, 18 and 1
C4_Witness ==
    /\ pc = "done"
    /\ Len(cards) = 2 * total_per_page + 1
    /\ Len(SavedPages(fronte, "F")) = 3
    /\ Len(SavedPages(retro, "B")[3].boxes) = 1

BreaksOk(canv) ==
    LET drawn == Len(AllBoxes(canv))
    IN /\ canv.shown = [k \in 1..(drawn \div total_per_page) |-> k * total_per_page - 1]
       /\ \A idx \in 0..(drawn - 1) :
             (idx \in Indices(canv.shown)) <=> ((idx + 1) % total_per_page = 0)
       /\ \A idx \in Indices(canv.shown) : idx < drawn
       /\ Len(canv.pages) = Len(canv.shown)
       /\ \A k \in 1..Len(canv.pages) :
             canv.pages[k].boxes[Len(canv.pages[k].boxes)].i = canv.shown[k]

\* C7 (page-break signal): a break is emitted right after drawing record i
\* iff (i + 1) mod total_per_page = 0 and never before record i is drawn, so
\* a pass over n records emits floor(n / total_per_page) breaks: none for a
\* trailing partial group, none for an empty sequence.
C7_PageBreakSignal ==
    /\ BreaksOk(fronte)
    /\ BreaksOk(retro)
    /\ FrontPassDone => Len(fronte.shown) = Len(cards) \div total_per_page
    /\ BackPassDone => Len(retro.shown) = Len(cards) \div total_per_page
    /\ Len(cards) = 0 => fronte.shown = <<>> /\ retro.shown = <<>>

\* a finished run of total_per_page + 1 records: one break, after the last
\* record of the first page, and none after the trailing record
C7_Witness ==
    /\ pc = "done"
    /\ Len(cards) = total_per_page + 1
    /\ fronte.shown = <<total_per_page - 1>>
    /\ retro.shown = <<total_per_page - 1>>

Disjoint(a, b) ==
    \/ a.x + CARD_WIDTH <= b.x
    \/ b.x + CARD_WIDTH <= a.x
    \/ a.y + CARD_HEIGHT <= b.y
    \/ b.y + CARD_HEIGHT <= a.y

PlacementOk(canv, side) ==
    LET boxes == AllBoxes(canv)
        groups == SavedPages(canv, side)
    IN /\ \A k \in 1..Len(boxes) :
             /\ 0 <= boxes[k].x /\ boxes[k].x + CARD_WIDTH <= A4Width
             /\ 0 <= boxes[k].y /\ boxes[k].y + CARD_HEIGHT <= A4Height
       /\ \A a, b \in 1..Len(boxes) : boxes[a].row < boxes[b].row => boxes[a].y > boxes[b].y
       /\ \A g \in 1..Len(groups) : \A a, b \in 1..Len(groups[g].boxes) :
             a # b => Disjoint(groups[g].boxes[a], groups[g].boxes[b])

\* C9 (placement): on both sides every drawn rectangle lies inside the A4
\* page, y strictly decreases as the row increases (row 0 is the topmost),
\* and two distinct records of the same page have disjoint interiors.
C9_PlacementOnPage ==
    /\ PlacementOk(fronte, "F")
    /\ PlacementOk(retro, "B")

\* a full page has been drawn on both sides, down to the last row
C9_Witness ==
    /\ BackPassDone
    /\ Len(retro.pages) >= 1
    /\ \E k \in 1..Len(BackBoxes) :
          BackBoxes[k].row = CARDS_PER_COL - 1 /\ BackBoxes[k].col = 0

\* the layout formula of the specification: floor((page - 2*margin + gap) / (card + gap))
FitColumns == (A4Width - 2 * MARGIN_X + GAP) \div (CARD_WIDTH + GAP)

FitRows == (A4Height - 2 * MARGIN_Y + GAP) \div (CARD_HEIGHT + GAP)

\* C5 (layout footprint): for the layout the program draws with, the grid
\* footprint fits in the usable area: columns*cardWidth + (columns-1)*gap
\* <= pageWidth - 2*marginX and rows*cardHeight + (rows-1)*gap <=
\* pageHeight - 2*marginY, with columns >= 1 and rows >= 1.  Stated for the
\* runs that fill the grid down to its last row.
C5_LayoutFootprint ==
    (\E k \in 1..Len(FrontBoxes) : FrontBoxes[k].row = CARDS_PER_COL - 1) =>
        /\ CARDS_PER_ROW >= 1
        /\ CARDS_PER_COL >= 1
        /\ CARDS_PER_ROW * CARD_WIDTH + (CARDS_PER_ROW - 1) * GAP <= A4Width - 2 * MARGIN_X
        /\ CARDS_PER_COL * CARD_HEIGHT + (CARDS_PER_COL - 1) * GAP <= A4Height - 2 * MARGIN_Y

\* C6 (layout calculation): the layout in effect is columns = 3 and rows = 5,
\* as the floor formula gives for A4, 6 x 4 cm cards, margins 1 and 2 cm and
\* gap 0.5 cm, and 15 cards per page.
C6_LayoutCalculation ==
    Len(FrontBoxes) > 0 =>
        /\ FitColumns = 3
        /\ FitRows = 5
        /\ CARDS_PER_ROW = FitColumns
        /\ CARDS_PER_COL = FitRows
        /\ total_per_page = 15
        /\ \A k \in 1..Len(FrontBoxes) : FrontBoxes[k].row < FitRows

\* C8 (merge interleaving): the output has nf + nb pages; for i < min(nf, nb)
\* output page 2i is front page i and output page 2i+1 is back page i; the
\* surplus pages of the longer document follow in order, nothing is padded,
\* dropped or duplicated.
C8_MergeInterleaving ==
    files.out.exists =>
        LET o == files.out.pages
            nf == Len(front_pdf)
            nb == Len(back_pdf)
            m == Min(nf, nb)
        IN /\ Len(o) = nf + nb
           /\ \A k \in 0..(m - 1) : o[2 * k + 1] = front_pdf[k + 1] /\ o[2 * k + 2] = back_pdf[k + 1]
           /\ \A k \in m..(nf - 1) : o[m + k + 1] = front_pdf[k + 1]
           /\ \A k \in m..(nb - 1) : o[m + k + 1] = back_pdf[k + 1]
           /\ \A a, b \in 1..Len(o) : a # b => o[a] # o[b]

\* an output written from a front document two pages longer than the back
C8_Witness ==
    /\ files.out.exists
    /\ Len(front_pdf) = 3
    /\ Len(back_pdf) = 1
    /\ Len(files.out.pages) = 4

AfterSave == pc \in {"call_merge", "import", "loop", "remove", "done"}

InMerge == pc \in {"import", "loop", "remove", "done"}

OutputComplete ==
    /\ files.out.exists
    /\ files.out.pages = writer
    /\ Len(writer) = Len(front_pdf) + Len(back_pdf)
    /\ mi = Max(Len(front_pdf), Len(back_pdf))

ArtifactsSafe ==
    /\ AfterSave /\ (~files.front.exists \/ ~files.back.exists) =>
          /\ OutputComplete
          /\ remove_intermediate
          /\ pc = "done"
    /\ pc = "remove" => OutputComplete /\ remove_intermediate
    /\ lib = "missing" =>
          /\ pc = "done"
          /\ ~files.out.exists
          /\ files.front.exists
          /\ files.back.exists

UpperOf(c) ==
    CASE c = "s" -> "S"
      [] c = "i" -> "I"
      [] OTHER -> c

\* raw is word, in any mix of cases, between any number of blanks
ReadsAs(raw, word) ==
    \E lead \in 0..Len(raw), trail \in 0..Len(raw) :
        /\ lead + Len(word) + trail = Len(raw)
        /\ \A k \in 1..lead : raw[k] \in {" ", "\t"}
        /\ \A k \in 1..trail : raw[lead + Len(word) + k] \in {" ", "\t"}
        /\ \A k \in 1..Len(word) : raw[lead + k] \in {word[k], UpperOf(word[k])}

\* C10 as stated (intermediate artifacts are never lost): the intermediates
\* are deleted only after the merged output is completely written and only
\* when remove_intermediate is true; without the merge library nothing is
\* written or deleted; and guided_flow passes remove_intermediate = false
\* exactly when the user answered 's' or 'si'.
C10_AsStated ==
    /\ ArtifactsSafe
    /\ InMerge => (remove_intermediate = FALSE <=> answer \in {<<"s">>, <<"s", "i">>})

\* C10 as amended: the same, with remove_intermediate = false exactly when the
\* answer, once its surrounding whitespace is stripped and its letters are
\* lower-cased, is 's' or 'si'.
C10_ArtifactsNeverLost ==
    /\ ArtifactsSafe
    /\ InMerge => (remove_intermediate = FALSE <=>
                      (ReadsAs(answer, <<"s">>) \/ ReadsAs(answer, <<"s", "i">>)))

\* the user asked for removal, the output was written and both intermediates
\* were then deleted
C10_Witness ==
    /\ pc = "done"
    /\ answer = <<"n">>
    /\ remove_intermediate
    /\ OutputComplete
    /\ ~files.front.exists
    /\ ~files.back.exists

====
